---------------------------- MODULE Spec2Model ----------------------------
(***************************************************************************)
(* Talking Talent: the staff (business analyst), talent round, review and   *)
(* export services over their in-memory arrays and the browser's           *)
(* localStorage.                                                           *)
(*                                                                         *)
(* Text is a sequence of one-character strings, so that String.trim and    *)
(* the e-mail pattern are computed and not assumed.  Ids, enum members and *)
(* error messages are strings.  Dates are day numbers read from the clock  *)
(* `now`.  JavaScript's undefined is one sentinel per kind of value.       *)
(* A localStorage item is the JSON text of a value or text that is not     *)
(* JSON, and localStorage can be made to throw on writes or on every call. *)
(***************************************************************************)
EXTENDS Integers, Sequences, FiniteSets, TLC

VARIABLES
  businessAnalysts,   \* BusinessAnalystServiceImpl.businessAnalysts
  talentRounds,       \* TalentRoundServiceImpl.talentRounds
  reviews,            \* ReviewServiceImpl.reviews
  localStorage,       \* the browser's localStorage: its items by key, and its fault
  idCount,            \* how many ids generateId has handed out, per service
  now,                \* the wall clock, in days
  exportFile,         \* the data string of the last export, kept by the user
  lastCall            \* the service call just made and how it returned

vars == <<businessAnalysts, talentRounds, reviews, localStorage, idCount, now, exportFile,
          lastCall>>

-----------------------------------------------------------------------------
(* Bounds of the model *)

MaxBA == 2
MaxRounds == 2
MaxReviews == 2
MaxNow == 1

-----------------------------------------------------------------------------
(* Values *)

Undefined == "undefined"
UndefinedText == <<"undefined">>
UndefinedDate == -1
UndefinedObject == [undefined |-> TRUE]
UndefinedActions == <<<<"undefined">>>>

BALevel == {"Principal", "Lead", "Senior", "Intermediate", "Consultant"}

DRAFT == "Draft"
ACTIVE == "Active"
COMPLETED == "Completed"
RoundStatus == {DRAFT, ACTIVE, COMPLETED}

PromotionReadiness == {"Ready", "Near Ready", "Not Ready"}

KEY_BUSINESS_ANALYSTS == "tt_business_analysts"
KEY_TALENT_ROUNDS == "tt_talent_rounds"
KEY_REVIEWS == "tt_reviews"
STORAGE_KEYS == {KEY_BUSINESS_ANALYSTS, KEY_TALENT_ROUNDS, KEY_REVIEWS}

MinYear == 2020
MaxYear == 2050

Whitespace == {" "}

DateFields == {"startDate", "lastPromotionDate", "createdAt", "updatedAt",
               "completedAt", "deadline"}
TextFields == {"firstName", "lastName", "email", "department", "name", "quarter",
               "description", "details", "generalNotes"}

ObjectFields == {"wellbeingConcerns", "performanceConcerns", "developmentOpportunities"}

\* The members declared optional (x?: T) in src/types/index.ts, and
\* promotionReadiness, which the services test for being set
OptionalFields == {"email", "lineManagerId", "department", "startDate",
                   "lastPromotionDate", "completedAt", "description", "reviewerId",
                   "details", "generalNotes", "actions", "promotionReadiness"}

\* JavaScript's undefined, in the representation of field f
UndefinedOf(f) ==
  IF f \in DateFields THEN UndefinedDate
  ELSE IF f \in TextFields THEN UndefinedText
  ELSE IF f \in ObjectFields THEN UndefinedObject
  ELSE IF f = "actions" THEN UndefinedActions
  ELSE Undefined

\* !v for an id: undefined and the empty string are falsy
FalsyId(v) == v = Undefined \/ v = ""

\* !v for a text: undefined and the empty string are falsy
FalsyText(v) == v = UndefinedText \/ v = <<>>

-----------------------------------------------------------------------------
(* Text *)

RECURSIVE TrimStart(_)
TrimStart(s) ==
  IF s # <<>> /\ Head(s) \in Whitespace THEN TrimStart(Tail(s)) ELSE s

RECURSIVE TrimEnd(_)
TrimEnd(s) ==
  IF s # <<>> /\ s[Len(s)] \in Whitespace THEN TrimEnd(SubSeq(s, 1, Len(s) - 1)) ELSE s

\* String.prototype.trim
Trim(s) == TrimEnd(TrimStart(s))

\* data.x?.trim()
OptTrim(s) == IF s = UndefinedText THEN UndefinedText ELSE Trim(s)

\* /^[^\s@]+@[^\s@]+\.[^\s@]+$/
isValidEmail(email) ==
  \E i \in 1..Len(email) :
    /\ email[i] = "@"
    /\ \A k \in 1..Len(email) : email[k] \notin Whitespace /\ (email[k] = "@" => k = i)
    /\ i > 1
    /\ \E j \in (i + 2)..(Len(email) - 1) : email[j] = "."

-----------------------------------------------------------------------------
(* Objects and arrays *)

\* { ...a, ...b }
Spread(a, b) ==
  [f \in DOMAIN a \cup DOMAIN b |-> IF f \in DOMAIN b THEN b[f] ELSE a[f]]

\* Array.prototype.findIndex on the id; 0 stands for -1
FindIndex(arr, id) ==
  IF \E i \in DOMAIN arr : arr[i].id = id
  THEN CHOOSE i \in DOMAIN arr : arr[i].id = id /\ \A j \in 1..(i - 1) : arr[j].id # id
  ELSE 0

\* arr with arr[i] = v
SetAt(arr, i, v) == [arr EXCEPT ![i] = v]

-----------------------------------------------------------------------------
(* src/utils/storage.ts *)

\* The value of a date member of an object in memory is a Date (its day
\* number, 0 or more), undefined (UndefinedDate), or, in an object that came
\* out of JSON.parse, the ISO string of a day: ISOString(day), below both
ISOString(day) == UndefinedDate - 1 - day
IsISOString(v) == v < UndefinedDate

\* JSON.stringify of one object: members that are undefined are left out, a
\* Date becomes its ISO string, and an ISO string stays the string it is
RECURSIVE ToJSON(_)
ToJSON(obj) ==
  [f \in {g \in DOMAIN obj : ~(g \in OptionalFields /\ obj[g] = UndefinedOf(g))} |->
     IF f \in DateFields
     THEN [iso |-> IF IsISOString(obj[f]) THEN UndefinedDate - 1 - obj[f] ELSE obj[f]]
     ELSE IF f \in ObjectFields THEN ToJSON(obj[f])
     ELSE obj[f]]

\* JSON.stringify(data) for an array of objects
Stringify(arr) == [i \in DOMAIN arr |-> ToJSON(arr[i])]

\* JSON values that are not one of the stored objects: an array, an object
\* with the named members, null, a number
JSONArray(items) == [array |-> items]
JSONObject(members) == [object |-> members]
JSONNull == [null |-> TRUE]
JSONNumber(n) == [number |-> n]

\* Array.isArray(value), for a JSON value
IsArray(value) == DOMAIN value = {"array"}

\* A text: the JSON text of a value (what JSON.stringify returns and JSON.parse
\* reads back), or characters that are not JSON
JSONText(value) == [json |-> value]
RawText(chars) == [raw |-> chars]
EmptyText == RawText("")
InvalidText == RawText("invalid json")

\* JSON.parse(text) throws
ParseThrows(text) == "json" \notin DOMAIN text

\* JSON.parse(text), for a text it accepts
Parse(text) == text.json

\* localStorage.getItem(key) of a key that was never set
NoItem == [item |-> "null"]

\* What localStorage does: "none" it works, "quota" setItem throws,
\* "unavailable" getItem and setItem throw
StorageFaults == {"none", "quota", "unavailable"}

getItemThrows(store) == store.fault = "unavailable"
setItemThrows(store) == store.fault \in {"quota", "unavailable"}

StorageError == "Storage quota exceeded or localStorage unavailable"

\* saveToStorage(key, data), when setItem does not throw
saveToStorage(store, key, data) ==
  [store EXCEPT !.items[key] = JSONText(JSONArray(Stringify(data)))]

\* loadFromStorage without the catch: a read that throws is taken to succeed
loadFromStorageUncaught(store, key) ==
  LET data == store.items[key]
  IN  IF data = NoItem \/ data = EmptyText THEN <<>>
      ELSE IF ParseThrows(data) THEN <<>>
      ELSE IF IsArray(Parse(data)) THEN Parse(data).array
      ELSE <<>>

\* loadFromStorage(key): the parsed array (dates stay ISO strings), or [] when
\* the read throws, there is no text, the text does not parse or the value is
\* not an array
loadFromStorage(store, key) ==
  LET data == store.items[key]
  IN  IF getItemThrows(store) THEN <<>>
      ELSE IF data = NoItem \/ data = EmptyText THEN <<>>
      ELSE IF ParseThrows(data) THEN <<>>
      ELSE IF IsArray(Parse(data)) THEN Parse(data).array
      ELSE <<>>

\* The object in memory that JSON.parse made of a stored object: the members
\* the text has, a date member being the ISO string (nothing revives a Date)
RECURSIVE ParsedObject(_)
ParsedObject(json) ==
  [f \in DOMAIN json |->
     IF f \in DateFields THEN ISOString(json[f].iso)
     ELSE IF f \in ObjectFields THEN ParsedObject(json[f])
     ELSE json[f]]

\* generateId(): Math.random().toString(36).substr(2, 9), taken to be a string
\* that no earlier call has returned; prefix tells the services' ids apart
generateId(prefix, n) == prefix \o ToString(n + 1)

-----------------------------------------------------------------------------
(* How a call returned *)

Returned(op, id, data, kind) ==
  [op |-> op, id |-> id, data |-> data, returned |-> kind, error |-> "",
   validationErrors |-> <<>>]

Threw(op, id, data, message) ==
  [op |-> op, id |-> id, data |-> data, returned |-> "throws", error |-> message,
   validationErrors |-> <<>>]

RECURSIVE Join(_)
Join(errors) ==
  IF errors = <<>> THEN ""
  ELSE IF Len(errors) = 1 THEN errors[1]
  ELSE errors[1] \o ", " \o Join(Tail(errors))

\* throw new Error(`Validation failed: ${validationErrors.join(', ')}`)
ThrewValidation(op, id, data, errors) ==
  [op |-> op, id |-> id, data |-> data, returned |-> "throws",
   error |-> "Validation failed: " \o Join(errors), validationErrors |-> errors]

NoData == [f \in {} |-> Undefined]

\* this.saveData() and the return that follows it: when the write throws, the
\* call throws saveToStorage's error and the storage keeps what it held
saveData(key, array, returned) ==
  IF setItemThrows(localStorage)
  THEN /\ localStorage' = localStorage
       /\ lastCall' = Threw(returned.op, returned.id, returned.data, StorageError)
  ELSE /\ localStorage' = saveToStorage(localStorage, key, array)
       /\ lastCall' = returned

\* A call of loadFromStorage(key) and the array it returns
LoadFromStorage(key) ==
  /\ lastCall' = [op |-> "loadFromStorage", id |-> key, data |-> NoData,
                  returned |-> "array", error |-> "", validationErrors |-> <<>>,
                  result |-> loadFromStorage(localStorage, key)]
  /\ UNCHANGED <<businessAnalysts, talentRounds, reviews, localStorage, idCount, now,
                 exportFile>>

\* A call of saveToStorage(key, data)
SaveToStorage(key, data) ==
  IF setItemThrows(localStorage)
  THEN /\ lastCall' = Threw("saveToStorage", key, data, StorageError)
       /\ UNCHANGED <<businessAnalysts, talentRounds, reviews, localStorage, idCount, now,
                      exportFile>>
  ELSE /\ localStorage' = saveToStorage(localStorage, key, data)
       /\ lastCall' = Returned("saveToStorage", key, data, "undefined")
       /\ UNCHANGED <<businessAnalysts, talentRounds, reviews, idCount, now, exportFile>>

-----------------------------------------------------------------------------
(* src/utils/validation.ts *)

validateBAData(data) ==
  (IF Trim(data.firstName) = <<>> THEN <<"First name is required">> ELSE <<>>)
  \o (IF Trim(data.lastName) = <<>> THEN <<"Last name is required">> ELSE <<>>)
  \o (IF data.level \notin BALevel THEN <<"Valid level is required">> ELSE <<>>)
  \o (IF ~FalsyText(data.email) /\ ~isValidEmail(data.email)
      THEN <<"Valid email address is required">> ELSE <<>>)

validateRoundData(data, today) ==
  (IF Trim(data.name) = <<>> THEN <<"Round name is required">> ELSE <<>>)
  \o (IF Trim(data.quarter) = <<>> THEN <<"Quarter is required">> ELSE <<>>)
  \o (IF data.year = 0 \/ data.year < MinYear \/ data.year > MaxYear
      THEN <<"Valid year is required">> ELSE <<>>)
  \o (IF data.deadline = UndefinedDate THEN <<"Deadline is required">>
      ELSE IF data.deadline < today THEN <<"Deadline cannot be in the past">>
      ELSE <<>>)

\* data.x.hasIssues && !data.x.details?.trim()
DetailsMissing(flag, concern) ==
  flag /\ (concern.details = UndefinedText \/ Trim(concern.details) = <<>>)

validateReviewData(data) ==
  (IF FalsyId(data.roundId) THEN <<"Round ID is required">> ELSE <<>>)
  \o (IF FalsyId(data.businessAnalystId)
      THEN <<"Business Analyst ID is required">> ELSE <<>>)
  \o (IF DetailsMissing(data.wellbeingConcerns.hasIssues, data.wellbeingConcerns)
      THEN <<"Wellbeing concerns details are required when issues are indicated">>
      ELSE <<>>)
  \o (IF DetailsMissing(data.performanceConcerns.hasIssues, data.performanceConcerns)
      THEN <<"Performance concerns details are required when issues are indicated">>
      ELSE <<>>)
  \o (IF DetailsMissing(data.developmentOpportunities.hasOpportunities,
                        data.developmentOpportunities)
      THEN <<"Development opportunities details are required when opportunities are indicated">>
      ELSE <<>>)

-----------------------------------------------------------------------------
(* src/services/businessAnalystService.ts *)

CreateBAFields == {"firstName", "lastName", "email", "level", "lineManagerId",
                   "department", "startDate"}

\* getById(id) is not null
BAExists(bas, id) == \E i \in DOMAIN bas : bas[i].id = id

\* getById(id), for an id that exists
BAById(bas, id) == bas[FindIndex(bas, id)]

\* The while loop of wouldCreateCircularReference: it stops at a falsy id and
\* at a visited id, returns true when currentId === baId, and goes on from an
\* id that getById does not find to undefined
RECURSIVE CircularWalk(_, _, _, _)
CircularWalk(bas, baId, currentId, visited) ==
  IF FalsyId(currentId) \/ currentId \in visited THEN FALSE
  ELSE IF currentId = baId THEN TRUE
  ELSE IF ~BAExists(bas, currentId) THEN FALSE
  ELSE CircularWalk(bas, baId, BAById(bas, currentId).lineManagerId,
                    visited \cup {currentId})

\* wouldCreateCircularReference with the two ids exchanged in the walk: it
\* looks for the new manager above the BA
wouldCreateCircularReferenceSwapped(bas, baId, newManagerId) ==
  IF FalsyId(newManagerId) \/ newManagerId = baId THEN FALSE
  ELSE CircularWalk(bas, newManagerId, baId, {})

wouldCreateCircularReference(bas, baId, newManagerId) ==
  IF FalsyId(newManagerId) \/ newManagerId = baId THEN FALSE
  ELSE CircularWalk(bas, baId, newManagerId, {})

\* The patch's lineManagerId as update reads it: data.lineManagerId
PatchManager(data) ==
  IF "lineManagerId" \in DOMAIN data THEN data.lineManagerId ELSE Undefined

\* The object create builds
NewBA(data, id, t) ==
  [id |-> id,
   firstName |-> Trim(data.firstName),
   lastName |-> Trim(data.lastName),
   email |-> OptTrim(data.email),
   level |-> data.level,
   lineManagerId |-> data.lineManagerId,
   department |-> OptTrim(data.department),
   startDate |-> data.startDate,
   lastPromotionDate |-> UndefinedDate,
   isActive |-> TRUE,
   createdAt |-> t,
   updatedAt |-> t]

\* create without the line manager lookup
BACreateAnyManager(data) ==
  LET errors == validateBAData(data)
      id == generateId("b", idCount.ba)
  IN  IF errors # <<>>
      THEN /\ lastCall' = ThrewValidation("ba.create", Undefined, data, errors)
           /\ UNCHANGED <<exportFile, businessAnalysts, talentRounds, reviews,
                          localStorage, idCount, now>>
      ELSE /\ Len(businessAnalysts) < MaxBA
           /\ businessAnalysts' = Append(businessAnalysts, NewBA(data, id, now))
           /\ idCount' = [idCount EXCEPT !.ba = @ + 1]
           /\ saveData(KEY_BUSINESS_ANALYSTS, businessAnalysts',
                       Returned("ba.create", id, data, "object"))
           /\ UNCHANGED <<exportFile, talentRounds, reviews, now>>

\* businessAnalystService.create(data)
BACreate(data) ==
  LET errors == validateBAData(data)
      id == generateId("b", idCount.ba)
  IN  IF errors # <<>>
      THEN /\ lastCall' = ThrewValidation("ba.create", Undefined, data, errors)
           /\ UNCHANGED <<exportFile, businessAnalysts, talentRounds, reviews,
                          localStorage, idCount, now>>
      ELSE IF ~FalsyId(data.lineManagerId) /\ ~BAExists(businessAnalysts, data.lineManagerId)
      THEN /\ lastCall' = Threw("ba.create", Undefined, data, "Line manager not found")
           /\ UNCHANGED <<exportFile, businessAnalysts, talentRounds, reviews,
                          localStorage, idCount, now>>
      ELSE /\ Len(businessAnalysts) < MaxBA
           /\ businessAnalysts' = Append(businessAnalysts, NewBA(data, id, now))
           /\ idCount' = [idCount EXCEPT !.ba = @ + 1]
           /\ saveData(KEY_BUSINESS_ANALYSTS, businessAnalysts',
                       Returned("ba.create", id, data, "object"))
           /\ UNCHANGED <<exportFile, talentRounds, reviews, now>>

\* The data update validates: the create fields of { ...existingBA, ...data }
BAUpdatedData(existingBA, data) ==
  [f \in CreateBAFields |-> Spread(existingBA, data)[f]]

\* businessAnalystService.update(id, data)
BAUpdate(id, data) ==
  LET baIndex == FindIndex(businessAnalysts, id)
      existingBA == businessAnalysts[baIndex]
      errors == validateBAData(BAUpdatedData(existingBA, data))
      updatedBA == [Spread(existingBA, data) EXCEPT !.updatedAt = now]
      unchanged == UNCHANGED <<exportFile, businessAnalysts, talentRounds, reviews,
                               localStorage,
                               idCount, now>>
  IN  IF baIndex = 0
      THEN lastCall' = Returned("ba.update", id, data, "null") /\ unchanged
      ELSE IF errors # <<>>
      THEN lastCall' = ThrewValidation("ba.update", id, data, errors) /\ unchanged
      ELSE IF /\ ~FalsyId(PatchManager(data))
              /\ PatchManager(data) # id
              /\ ~BAExists(businessAnalysts, PatchManager(data))
      THEN lastCall' = Threw("ba.update", id, data, "Line manager not found") /\ unchanged
      ELSE IF wouldCreateCircularReference(businessAnalysts, id, PatchManager(data))
      THEN /\ lastCall' = Threw("ba.update", id, data,
                                "Cannot create circular reporting relationship")
           /\ unchanged
      ELSE /\ businessAnalysts' = SetAt(businessAnalysts, baIndex, updatedBA)
           /\ saveData(KEY_BUSINESS_ANALYSTS, businessAnalysts',
                       Returned("ba.update", id, data, "object"))
           /\ UNCHANGED <<exportFile, talentRounds, reviews, idCount, now>>

\* deactivate that also detaches the direct reports from the manager
BADeactivateCascade(id) ==
  LET baIndex == FindIndex(businessAnalysts, id)
  IN  IF baIndex = 0
      THEN /\ lastCall' = Returned("ba.deactivate", id, NoData, "false")
           /\ UNCHANGED <<exportFile, businessAnalysts, talentRounds, reviews, localStorage,
                          idCount, now>>
      ELSE /\ businessAnalysts' =
                [i \in DOMAIN businessAnalysts |->
                   IF i = baIndex
                   THEN [businessAnalysts[i] EXCEPT !.isActive = FALSE, !.updatedAt = now]
                   ELSE IF businessAnalysts[i].lineManagerId = id
                   THEN [businessAnalysts[i] EXCEPT !.lineManagerId = Undefined]
                   ELSE businessAnalysts[i]]
           /\ saveData(KEY_BUSINESS_ANALYSTS, businessAnalysts',
                       Returned("ba.deactivate", id, NoData, "true"))
           /\ UNCHANGED <<exportFile, talentRounds, reviews, idCount, now>>

\* deactivate that returns without this.saveData()
BADeactivateUnsaved(id) ==
  LET baIndex == FindIndex(businessAnalysts, id)
  IN  IF baIndex = 0
      THEN /\ lastCall' = Returned("ba.deactivate", id, NoData, "false")
           /\ UNCHANGED <<exportFile, businessAnalysts, talentRounds, reviews,
                          localStorage, idCount, now>>
      ELSE /\ businessAnalysts' =
                SetAt(businessAnalysts, baIndex,
                      [businessAnalysts[baIndex] EXCEPT !.isActive = FALSE,
                                                        !.updatedAt = now])
           /\ lastCall' = Returned("ba.deactivate", id, NoData, "true")
           /\ UNCHANGED <<exportFile, talentRounds, reviews, localStorage, idCount, now>>

\* businessAnalystService.deactivate(id)
BADeactivate(id) ==
  LET baIndex == FindIndex(businessAnalysts, id)
  IN  IF baIndex = 0
      THEN /\ lastCall' = Returned("ba.deactivate", id, NoData, "false")
           /\ UNCHANGED <<exportFile, businessAnalysts, talentRounds, reviews, localStorage,
                          idCount, now>>
      ELSE /\ businessAnalysts' =
                SetAt(businessAnalysts, baIndex,
                      [businessAnalysts[baIndex] EXCEPT !.isActive = FALSE,
                                                        !.updatedAt = now])
           /\ saveData(KEY_BUSINESS_ANALYSTS, businessAnalysts',
                       Returned("ba.deactivate", id, NoData, "true"))
           /\ UNCHANGED <<exportFile, talentRounds, reviews, idCount, now>>

\* buildOrgChartNode(ba, allBAs, depth)
RECURSIVE buildOrgChartNode(_, _, _)
buildOrgChartNode(ba, allBAs, depth) ==
  LET reports == SelectSeq(allBAs, LAMBDA child : child.lineManagerId = ba.id)
  IN  [ba |-> ba,
       children |-> [i \in DOMAIN reports |->
                       buildOrgChartNode(reports[i], allBAs, depth + 1)],
       depth |-> depth]

\* getOrgChart that hands every record, active or not, to buildOrgChartNode
getOrgChartOfAll(bas) ==
  LET activeBAs == SelectSeq(bas, LAMBDA ba : ba.isActive)
      rootBAs == SelectSeq(activeBAs, LAMBDA ba : FalsyId(ba.lineManagerId))
  IN  [i \in DOMAIN rootBAs |-> buildOrgChartNode(rootBAs[i], bas, 0)]

\* businessAnalystService.getOrgChart()
getOrgChart(bas) ==
  LET activeBAs == SelectSeq(bas, LAMBDA ba : ba.isActive)
      rootBAs == SelectSeq(activeBAs, LAMBDA ba : FalsyId(ba.lineManagerId))
  IN  [i \in DOMAIN rootBAs |-> buildOrgChartNode(rootBAs[i], activeBAs, 0)]

(* The two walks of the hierarchy, a step at a time: lastCall holds the     *)
(* position of the call that is running                                     *)

\* A call has started and has not returned or thrown
Running == lastCall.returned = "running"

\* The call of wouldCreateCircularReference(baId, newManagerId) that update
\* makes, up to the loop
StartCircularWalk(baId, newManagerId) ==
  /\ ~Running
  /\ lastCall' =
       IF FalsyId(newManagerId) \/ newManagerId = baId
       THEN Returned("ba.wouldCreateCircularReference", baId,
                     [lineManagerId |-> newManagerId], "false")
       ELSE [op |-> "ba.wouldCreateCircularReference", id |-> baId,
             data |-> [lineManagerId |-> newManagerId], returned |-> "running",
             error |-> "", validationErrors |-> <<>>,
             visited |-> {}, currentId |-> newManagerId]
  /\ UNCHANGED <<exportFile, businessAnalysts, talentRounds, reviews, localStorage,
                 idCount, now>>

\* The test of the while loop and, when it holds, one pass through its body
CircularStep ==
  /\ Running
  /\ lastCall.op = "ba.wouldCreateCircularReference"
  /\ LET currentId == lastCall.currentId
         return(value) == Returned(lastCall.op, lastCall.id, lastCall.data, value)
     IN  lastCall' =
           IF FalsyId(currentId) \/ currentId \in lastCall.visited
           THEN return("false")
           ELSE IF currentId = lastCall.id
           THEN return("true")
           ELSE [lastCall EXCEPT
                   !.visited = @ \cup {currentId},
                   !.currentId = IF BAExists(businessAnalysts, currentId)
                                 THEN BAById(businessAnalysts, currentId).lineManagerId
                                 ELSE Undefined]
  /\ UNCHANGED <<exportFile, businessAnalysts, talentRounds, reviews, localStorage,
                 idCount, now>>

StackOverflow == "RangeError: Maximum call stack size exceeded"

\* getOrgChart(), up to the map over rootBAs
StartOrgChart ==
  /\ ~Running
  /\ lastCall' = [op |-> "ba.getOrgChart", id |-> Undefined, data |-> NoData,
                  returned |-> "running", error |-> "", validationErrors |-> <<>>,
                  mapped |-> 0, stack |-> <<>>]
  /\ UNCHANGED <<exportFile, businessAnalysts, talentRounds, reviews, localStorage,
                 idCount, now>>

\* One step of the maps of getOrgChart and buildOrgChartNode: the call of
\* buildOrgChartNode for the next element, or the return to the caller when
\* every element is mapped. mapped counts the elements whose call returned.
\* StackLimit is the frames the call stack has room for: a chain of calls
\* longer than the list of staff has some record twice and goes on from it as
\* it did the first time, until the stack is full
OrgChartStep ==
  /\ Running
  /\ lastCall.op = "ba.getOrgChart"
  /\ LET activeBAs == SelectSeq(businessAnalysts, LAMBDA ba : ba.isActive)
         rootBAs == SelectSeq(activeBAs, LAMBDA ba : FalsyId(ba.lineManagerId))
         stack == lastCall.stack
         top == stack[Len(stack)]
         children == SelectSeq(activeBAs, LAMBDA child : child.lineManagerId = top.ba.id)
         frame(ba) == [ba |-> ba, mapped |-> 0]
         StackLimit == MaxBA + 1
     IN  lastCall' =
           IF stack = <<>>
           THEN IF lastCall.mapped < Len(rootBAs)
                THEN [lastCall EXCEPT !.stack = <<frame(rootBAs[lastCall.mapped + 1])>>]
                ELSE Returned(lastCall.op, lastCall.id, lastCall.data, "array")
           ELSE IF top.mapped < Len(children)
           THEN IF Len(stack) = StackLimit
                THEN Threw(lastCall.op, lastCall.id, lastCall.data, StackOverflow)
                ELSE [lastCall EXCEPT !.stack = Append(@, frame(children[top.mapped + 1]))]
           ELSE IF Len(stack) = 1
           THEN [lastCall EXCEPT !.stack = <<>>, !.mapped = @ + 1]
           ELSE [lastCall EXCEPT
                   !.stack = [SubSeq(stack, 1, Len(stack) - 1) EXCEPT
                                ![Len(stack) - 1].mapped = @ + 1]]
  /\ UNCHANGED <<exportFile, businessAnalysts, talentRounds, reviews, localStorage,
                 idCount, now>>

\* businessAnalystService.getDirectReports(managerId)
getDirectReports(bas, managerId) ==
  SelectSeq(bas, LAMBDA ba : ba.lineManagerId = managerId /\ ba.isActive)

-----------------------------------------------------------------------------
(* src/services/reviewService.ts *)

CreateReviewFields == {"roundId", "businessAnalystId", "reviewerId", "wellbeingConcerns",
                       "performanceConcerns", "developmentOpportunities",
                       "promotionReadiness", "actions", "generalNotes"}

\* data.f of a Partial<CreateReviewRequest>
PatchGet(data, f) == IF f \in DOMAIN data THEN data[f] ELSE UndefinedOf(f)

\* !v, for the value v of field f
Falsy(f, v) ==
  IF f \in TextFields THEN FalsyText(v)
  ELSE IF f \in ObjectFields THEN v = UndefinedObject
  ELSE IF f = "actions" THEN v = UndefinedActions
  ELSE FalsyId(v)

\* isReviewComplete(data)
isReviewComplete(data) ==
  IF FalsyId(data.promotionReadiness) THEN FALSE
  ELSE IF DetailsMissing(data.wellbeingConcerns.hasIssues, data.wellbeingConcerns)
  THEN FALSE
  ELSE IF DetailsMissing(data.performanceConcerns.hasIssues, data.performanceConcerns)
  THEN FALSE
  ELSE IF DetailsMissing(data.developmentOpportunities.hasOpportunities,
                         data.developmentOpportunities)
  THEN FALSE
  ELSE TRUE

\* getByBAAndRound(baId, roundId) is not null
ReviewExistsFor(rs, baId, roundId) ==
  \E i \in DOMAIN rs : rs[i].businessAnalystId = baId /\ rs[i].roundId = roundId

\* data.actions?.filter(action => action.trim()) || []
FilterActions(actions) ==
  IF actions = UndefinedActions THEN <<>>
  ELSE SelectSeq(actions, LAMBDA a : Trim(a) # <<>>)

\* The object create builds
NewReview(data, id, t) ==
  [id |-> id,
   roundId |-> data.roundId,
   businessAnalystId |-> data.businessAnalystId,
   reviewerId |-> data.reviewerId,
   wellbeingConcerns |-> [hasIssues |-> data.wellbeingConcerns.hasIssues,
                          details |-> OptTrim(data.wellbeingConcerns.details)],
   performanceConcerns |-> [hasIssues |-> data.performanceConcerns.hasIssues,
                            details |-> OptTrim(data.performanceConcerns.details)],
   developmentOpportunities |->
     [hasOpportunities |-> data.developmentOpportunities.hasOpportunities,
      details |-> OptTrim(data.developmentOpportunities.details)],
   promotionReadiness |-> data.promotionReadiness,
   actions |-> FilterActions(data.actions),
   generalNotes |-> OptTrim(data.generalNotes),
   isComplete |-> isReviewComplete(data),
   completedAt |-> IF isReviewComplete(data) THEN t ELSE UndefinedDate,
   createdAt |-> t,
   updatedAt |-> t]

\* reviewService.create(data)
ReviewCreate(data) ==
  LET errors == validateReviewData(data)
      id == generateId("v", idCount.review)
      unchanged == UNCHANGED <<exportFile, businessAnalysts, talentRounds, reviews,
                               localStorage,
                               idCount, now>>
  IN  IF errors # <<>>
      THEN lastCall' = ThrewValidation("review.create", Undefined, data, errors) /\ unchanged
      ELSE IF ReviewExistsFor(reviews, data.businessAnalystId, data.roundId)
      THEN /\ lastCall' = Threw("review.create", Undefined, data,
                                "Review already exists for this BA and round")
           /\ unchanged
      ELSE /\ Len(reviews) < MaxReviews
           /\ reviews' = Append(reviews, NewReview(data, id, now))
           /\ idCount' = [idCount EXCEPT !.review = @ + 1]
           /\ saveData(KEY_REVIEWS, reviews',
                       Returned("review.create", id, data, "object"))
           /\ UNCHANGED <<exportFile, businessAnalysts, talentRounds, now>>

\* The data update validates: data.f || existingReview.f, field by field
ReviewUpdatedData(existingReview, data) ==
  [f \in CreateReviewFields |->
     IF Falsy(f, PatchGet(data, f)) THEN existingReview[f] ELSE data[f]]

\* reviewService.update(id, data)
ReviewUpdate(id, data) ==
  LET reviewIndex == FindIndex(reviews, id)
      existingReview == reviews[reviewIndex]
      updatedData == ReviewUpdatedData(existingReview, data)
      errors == validateReviewData(updatedData)
      isComplete == isReviewComplete(updatedData)
      updatedReview ==
        [Spread(existingReview, data) EXCEPT
           !.isComplete = isComplete,
           !.completedAt = IF isComplete /\ ~existingReview.isComplete
                           THEN now ELSE existingReview.completedAt,
           !.updatedAt = now]
      unchanged == UNCHANGED <<exportFile, businessAnalysts, talentRounds, reviews,
                               localStorage,
                               idCount, now>>
  IN  IF reviewIndex = 0
      THEN lastCall' = Returned("review.update", id, data, "null") /\ unchanged
      ELSE IF errors # <<>>
      THEN lastCall' = ThrewValidation("review.update", id, data, errors) /\ unchanged
      ELSE /\ reviews' = SetAt(reviews, reviewIndex, updatedReview)
           /\ saveData(KEY_REVIEWS, reviews',
                       Returned("review.update", id, data, "object"))
           /\ UNCHANGED <<exportFile, businessAnalysts, talentRounds, idCount, now>>

\* getByBA(baId)
getByBA(rs, baId) == SelectSeq(rs, LAMBDA review : review.businessAnalystId = baId)

\* arr.sort((a, b) => a.createdAt.getTime() - b.createdAt.getTime()) throws a
\* TypeError: the comparator is called when there are two elements or more,
\* and on every element, and a string has no getTime
SortByCreatedAtThrows(arr) ==
  Len(arr) >= 2 /\ \E i \in DOMAIN arr : IsISOString(arr[i].createdAt)

\* arr.sort((a, b) => a.createdAt.getTime() - b.createdAt.getTime()) of Dates:
\* ascending, equal times in the order they had (the sort is stable)
SortByCreatedAt(arr) ==
  LET before(i) == {j \in DOMAIN arr :
                      \/ arr[j].createdAt - arr[i].createdAt < 0
                      \/ arr[j].createdAt - arr[i].createdAt = 0 /\ j < i}
  IN  [k \in DOMAIN arr |-> arr[CHOOSE i \in DOMAIN arr : Cardinality(before(i)) = k - 1]]

\* calculateTrend(reviews)
calculateTrend(trendReviews) ==
  IF Len(trendReviews) < 2 THEN "New"
  ELSE LET previous == trendReviews[Len(trendReviews) - 1]
           current == trendReviews[Len(trendReviews)]
           promotionReadinessScore(readiness) ==
             IF readiness = "Ready" THEN 3
             ELSE IF readiness = "Near Ready" THEN 2
             ELSE IF readiness = "Not Ready" THEN 1
             ELSE 1
           previousScore == promotionReadinessScore(previous.promotionReadiness)
           currentScore == promotionReadinessScore(current.promotionReadiness)
           concernsChanged ==
             \/ previous.concerns.wellbeing # current.concerns.wellbeing
             \/ previous.concerns.performance # current.concerns.performance
       IN  IF \/ currentScore > previousScore
              \/ (~concernsChanged /\ current.actionCount < previous.actionCount)
           THEN "Improving"
           ELSE IF currentScore < previousScore \/ concernsChanged
           THEN "Declining"
           ELSE "Stable"

\* The complete reviews of getHistoricalTrend, before the sort
CompleteReviewsOf(rs, baId) == SelectSeq(getByBA(rs, baId), LAMBDA review : review.isComplete)

\* getHistoricalTrend(baId), when the sort does not throw
getHistoricalTrend(rs, baId) ==
  IF getByBA(rs, baId) = <<>>
  THEN [baId |-> baId, reviews |-> <<>>, trend |-> "New"]
  ELSE LET sorted == SortByCreatedAt(CompleteReviewsOf(rs, baId))
           reviewData ==
             [i \in DOMAIN sorted |->
                [roundName |-> "Round " \o sorted[i].roundId,
                 date |-> sorted[i].createdAt,
                 promotionReadiness |-> sorted[i].promotionReadiness,
                 concerns |-> [wellbeing |-> sorted[i].wellbeingConcerns.hasIssues,
                               performance |-> sorted[i].performanceConcerns.hasIssues],
                 actionCount |-> Len(sorted[i].actions)]]
       IN  [baId |-> baId, reviews |-> reviewData, trend |-> calculateTrend(reviewData)]

\* reviewService.getHistoricalTrend(baId)
GetHistoricalTrend(baId) ==
  /\ IF SortByCreatedAtThrows(CompleteReviewsOf(reviews, baId))
     THEN lastCall' = Threw("review.getHistoricalTrend", baId, NoData,
                            "TypeError: a.createdAt.getTime is not a function")
     ELSE lastCall' = [op |-> "review.getHistoricalTrend", id |-> baId, data |-> NoData,
                       returned |-> "object", error |-> "", validationErrors |-> <<>>,
                       result |-> getHistoricalTrend(reviews, baId)]
  /\ UNCHANGED <<exportFile, businessAnalysts, talentRounds, reviews, localStorage,
                 idCount, now>>

-----------------------------------------------------------------------------
(* src/services/talentRoundService.ts *)

CreateRoundFields == {"name", "quarter", "year", "deadline", "description"}

\* Math.round((completed / total) * 100)
RoundedPercentage(completed, total) == (200 * completed + total) \div (2 * total)

\* roundReviews.find(r => r.businessAnalystId === ba.id) is a complete review
FoundReviewIsComplete(roundReviews, baId) ==
  /\ \E k \in DOMAIN roundReviews : roundReviews[k].businessAnalystId = baId
  /\ LET first == CHOOSE k \in DOMAIN roundReviews :
                    /\ roundReviews[k].businessAnalystId = baId
                    /\ \A j \in 1..(k - 1) : roundReviews[j].businessAnalystId # baId
     IN  roundReviews[first].isComplete

\* getRoundSummary(id), for the id of a round that exists: the staff service's
\* active records and the reviews read from storage
getRoundSummary(bas, store, id) ==
  LET allBAs == SelectSeq(bas, LAMBDA ba : ba.isActive)
      allReviews == loadFromStorage(store, KEY_REVIEWS)
      roundReviews == SelectSeq(allReviews, LAMBDA review : review.roundId = id)
      totalBAs == Len(allBAs)
      completedReviews == Len(SelectSeq(roundReviews, LAMBDA r : r.isComplete))
  IN  [roundId |-> id,
       totalBAs |-> totalBAs,
       completedReviews |-> completedReviews,
       pendingReviews |-> totalBAs - completedReviews,
       completionPercentage |->
         IF totalBAs > 0 THEN RoundedPercentage(completedReviews, totalBAs) ELSE 0,
       reviewsByLevel |->
         [level \in BALevel |->
            [total |-> Cardinality({i \in DOMAIN allBAs : allBAs[i].level = level}),
             completed |->
               Cardinality({i \in DOMAIN allBAs :
                              /\ allBAs[i].level = level
                              /\ FoundReviewIsComplete(roundReviews, allBAs[i].id)})]]]

\* this.talentRounds.find(round => round.quarter === quarter && round.year === year)
RoundExistsFor(rounds, quarter, year) ==
  \E i \in DOMAIN rounds : rounds[i].quarter = quarter /\ rounds[i].year = year

\* The object create builds
NewRound(data, id, t) ==
  [id |-> id,
   name |-> Trim(data.name),
   quarter |-> Trim(data.quarter),
   year |-> data.year,
   deadline |-> data.deadline,
   status |-> DRAFT,
   createdBy |-> "system",
   createdAt |-> t,
   completedAt |-> UndefinedDate,
   description |-> OptTrim(data.description)]

\* talentRoundService.create(data)
RoundCreate(data) ==
  LET errors == validateRoundData(data, now)
      id == generateId("r", idCount.round)
      unchanged == UNCHANGED <<exportFile, businessAnalysts, talentRounds, reviews,
                               localStorage,
                               idCount, now>>
  IN  IF errors # <<>>
      THEN lastCall' = ThrewValidation("round.create", Undefined, data, errors) /\ unchanged
      ELSE IF RoundExistsFor(talentRounds, data.quarter, data.year)
      THEN /\ lastCall' = Threw("round.create", Undefined, data,
                                "A round already exists for this quarter and year")
           /\ unchanged
      ELSE /\ Len(talentRounds) < MaxRounds
           /\ talentRounds' = Append(talentRounds, NewRound(data, id, now))
           /\ idCount' = [idCount EXCEPT !.round = @ + 1]
           /\ saveData(KEY_TALENT_ROUNDS, talentRounds',
                       Returned("round.create", id, data, "object"))
           /\ UNCHANGED <<exportFile, businessAnalysts, reviews, now>>

\* The data update validates: the create fields of { ...existingRound, ...data }
RoundUpdatedData(existingRound, data) ==
  [f \in CreateRoundFields |-> Spread(existingRound, data)[f]]

\* update without the test for a completed round
RoundUpdateAnyStatus(id, data) ==
  LET roundIndex == FindIndex(talentRounds, id)
      existingRound == talentRounds[roundIndex]
      errors == validateRoundData(RoundUpdatedData(existingRound, data), now)
      updatedRound == Spread(existingRound, data)
      unchanged == UNCHANGED <<exportFile, businessAnalysts, talentRounds, reviews,
                               localStorage,
                               idCount, now>>
  IN  IF roundIndex = 0
      THEN lastCall' = Returned("round.update", id, data, "null") /\ unchanged
      ELSE IF errors # <<>>
      THEN lastCall' = ThrewValidation("round.update", id, data, errors) /\ unchanged
      ELSE /\ talentRounds' = SetAt(talentRounds, roundIndex, updatedRound)
           /\ saveData(KEY_TALENT_ROUNDS, talentRounds',
                       Returned("round.update", id, data, "object"))
           /\ UNCHANGED <<exportFile, businessAnalysts, reviews, idCount, now>>

\* talentRoundService.update(id, data)
RoundUpdate(id, data) ==
  LET roundIndex == FindIndex(talentRounds, id)
      existingRound == talentRounds[roundIndex]
      errors == validateRoundData(RoundUpdatedData(existingRound, data), now)
      updatedRound == Spread(existingRound, data)
      unchanged == UNCHANGED <<exportFile, businessAnalysts, talentRounds, reviews,
                               localStorage,
                               idCount, now>>
  IN  IF roundIndex = 0
      THEN lastCall' = Returned("round.update", id, data, "null") /\ unchanged
      ELSE IF existingRound.status = COMPLETED
      THEN /\ lastCall' = Threw("round.update", id, data, "Cannot edit completed rounds")
           /\ unchanged
      ELSE IF errors # <<>>
      THEN lastCall' = ThrewValidation("round.update", id, data, errors) /\ unchanged
      ELSE /\ talentRounds' = SetAt(talentRounds, roundIndex, updatedRound)
           /\ saveData(KEY_TALENT_ROUNDS, talentRounds',
                       Returned("round.update", id, data, "object"))
           /\ UNCHANGED <<exportFile, businessAnalysts, reviews, idCount, now>>

\* activate without the test for a draft round
RoundActivateAnyStatus(id) ==
  LET roundIndex == FindIndex(talentRounds, id)
      round == talentRounds[roundIndex]
      unchanged == UNCHANGED <<exportFile, businessAnalysts, talentRounds, reviews,
                               localStorage,
                               idCount, now>>
  IN  IF roundIndex = 0
      THEN lastCall' = Returned("round.activate", id, NoData, "null") /\ unchanged
      ELSE /\ talentRounds' = SetAt(talentRounds, roundIndex,
                                    [round EXCEPT !.status = ACTIVE])
           /\ saveData(KEY_TALENT_ROUNDS, talentRounds',
                       Returned("round.activate", id, NoData, "object"))
           /\ UNCHANGED <<exportFile, businessAnalysts, reviews, idCount, now>>

\* talentRoundService.activate(id)
RoundActivate(id) ==
  LET roundIndex == FindIndex(talentRounds, id)
      round == talentRounds[roundIndex]
      unchanged == UNCHANGED <<exportFile, businessAnalysts, talentRounds, reviews,
                               localStorage,
                               idCount, now>>
  IN  IF roundIndex = 0
      THEN lastCall' = Returned("round.activate", id, NoData, "null") /\ unchanged
      ELSE IF round.status # DRAFT
      THEN /\ lastCall' = Threw("round.activate", id, NoData,
                                "Only draft rounds can be activated")
           /\ unchanged
      ELSE /\ talentRounds' = SetAt(talentRounds, roundIndex,
                                    [round EXCEPT !.status = ACTIVE])
           /\ saveData(KEY_TALENT_ROUNDS, talentRounds',
                       Returned("round.activate", id, NoData, "object"))
           /\ UNCHANGED <<exportFile, businessAnalysts, reviews, idCount, now>>

\* complete without the test of the completion percentage
RoundCompleteAnyPercentage(id) ==
  LET roundIndex == FindIndex(talentRounds, id)
      round == talentRounds[roundIndex]
      unchanged == UNCHANGED <<exportFile, businessAnalysts, talentRounds, reviews,
                               localStorage,
                               idCount, now>>
  IN  IF roundIndex = 0
      THEN lastCall' = Returned("round.complete", id, NoData, "null") /\ unchanged
      ELSE IF round.status # ACTIVE
      THEN /\ lastCall' = Threw("round.complete", id, NoData,
                                "Only active rounds can be completed")
           /\ unchanged
      ELSE /\ talentRounds' = SetAt(talentRounds, roundIndex,
                                    [round EXCEPT !.status = COMPLETED,
                                                  !.completedAt = now])
           /\ saveData(KEY_TALENT_ROUNDS, talentRounds',
                       Returned("round.complete", id, NoData, "object"))
           /\ UNCHANGED <<exportFile, businessAnalysts, reviews, idCount, now>>

\* talentRoundService.complete(id)
RoundComplete(id) ==
  LET roundIndex == FindIndex(talentRounds, id)
      round == talentRounds[roundIndex]
      summary == getRoundSummary(businessAnalysts, localStorage, id)
      unchanged == UNCHANGED <<exportFile, businessAnalysts, talentRounds, reviews,
                               localStorage,
                               idCount, now>>
  IN  IF roundIndex = 0
      THEN lastCall' = Returned("round.complete", id, NoData, "null") /\ unchanged
      ELSE IF round.status # ACTIVE
      THEN /\ lastCall' = Threw("round.complete", id, NoData,
                                "Only active rounds can be completed")
           /\ unchanged
      ELSE IF summary.completionPercentage < 100
      THEN /\ lastCall' = Threw("round.complete", id, NoData,
                                "Cannot complete round with incomplete reviews")
           /\ unchanged
      ELSE /\ talentRounds' = SetAt(talentRounds, roundIndex,
                                    [round EXCEPT !.status = COMPLETED,
                                                  !.completedAt = now])
           /\ saveData(KEY_TALENT_ROUNDS, talentRounds',
                       Returned("round.complete", id, NoData, "object"))
           /\ UNCHANGED <<exportFile, businessAnalysts, reviews, idCount, now>>

-----------------------------------------------------------------------------
(* src/services/dataExportService.ts *)

\* The members of an export that importData reads
ImportMembers == {"businessAnalysts", "talentRounds", "reviews"}

\* The storage key importData writes a member to
KeyOfMember(member) ==
  IF member = "businessAnalysts" THEN KEY_BUSINESS_ANALYSTS
  ELSE IF member = "talentRounds" THEN KEY_TALENT_ROUNDS
  ELSE KEY_REVIEWS

\* The object exportAll serializes
ExportData(store, t) ==
  JSONObject([businessAnalysts |-> JSONArray(loadFromStorage(store, KEY_BUSINESS_ANALYSTS)),
              talentRounds |-> JSONArray(loadFromStorage(store, KEY_TALENT_ROUNDS)),
              reviews |-> JSONArray(loadFromStorage(store, KEY_REVIEWS)),
              exportedAt |-> [iso |-> t],
              version |-> "1.0"])

\* What exportAll and importData return
ExportReturned(dataString) ==
  [op |-> "exportAll", id |-> Undefined, data |-> NoData, returned |-> "object",
   error |-> "", validationErrors |-> <<>>,
   result |-> [success |-> TRUE, data |-> dataString]]

ImportReturned(jsonString, success, imported, errors) ==
  [op |-> "importData", id |-> Undefined, data |-> jsonString, returned |-> "object",
   error |-> "", validationErrors |-> <<>>,
   result |-> [success |-> success, imported |-> imported, errors |-> errors]]

\* dataExportService.exportAll(); the user keeps the data string
ExportAll ==
  /\ exportFile' = JSONText(ExportData(localStorage, now))
  /\ lastCall' = ExportReturned(exportFile')
  /\ UNCHANGED <<businessAnalysts, talentRounds, reviews, localStorage, idCount, now>>

\* HasArray that takes an empty array for a missing one
HasNonEmptyArray(data, member) ==
  /\ DOMAIN data = {"object"}
  /\ member \in DOMAIN data.object
  /\ IsArray(data.object[member])
  /\ data.object[member].array # <<>>

\* data[key] && Array.isArray(data[key])
HasArray(data, member) ==
  /\ DOMAIN data = {"object"}
  /\ member \in DOMAIN data.object
  /\ IsArray(data.object[member])

\* validateImportData without the search for an array
validateImportDataAnyObject(data) ==
  DOMAIN data \in {{"object"}, {"array"}}

\* validateImportData(data): typeof data is 'object' for an object and for an
\* array, and null is falsy
validateImportData(data) ==
  IF DOMAIN data \notin {{"object"}, {"array"}} THEN FALSE
  ELSE \E member \in ImportMembers : HasArray(data, member)

\* The three guarded writes of importData, in their order
ImportOrder == <<"businessAnalysts", "talentRounds", "reviews">>

RECURSIVE ImportedCount(_, _)
ImportedCount(data, members) ==
  IF members = <<>> THEN 0
  ELSE (IF HasArray(data, Head(members)) THEN Len(data.object[Head(members)].array) ELSE 0)
       + ImportedCount(data, Tail(members))

ImportFailure(member) ==
  IF member = "businessAnalysts" THEN "Failed to import business analysts"
  ELSE IF member = "talentRounds" THEN "Failed to import talent rounds"
  ELSE "Failed to import reviews"

RECURSIVE ImportErrors(_, _)
ImportErrors(data, members) ==
  IF members = <<>> THEN <<>>
  ELSE (IF HasArray(data, Head(members)) THEN <<ImportFailure(Head(members))>> ELSE <<>>)
       \o ImportErrors(data, Tail(members))

\* dataExportService.importData(jsonString)
ImportData(jsonString) ==
  LET data == Parse(jsonString)
      unchanged == UNCHANGED <<businessAnalysts, talentRounds, reviews, localStorage,
                               idCount, now, exportFile>>
  IN  IF ParseThrows(jsonString)
      THEN lastCall' = ImportReturned(jsonString, FALSE, 0, <<"Invalid JSON format">>)
           /\ unchanged
      ELSE IF ~validateImportData(data)
      THEN lastCall' = ImportReturned(jsonString, FALSE, 0, <<"Invalid import data format">>)
           /\ unchanged
      ELSE IF setItemThrows(localStorage)
      THEN lastCall' = ImportReturned(jsonString, FALSE, 0, ImportErrors(data, ImportOrder))
           /\ unchanged
      ELSE /\ localStorage' =
                [localStorage EXCEPT !.items =
                   [key \in STORAGE_KEYS |->
                      IF \E m \in ImportMembers : KeyOfMember(m) = key /\ HasArray(data, m)
                      THEN JSONText(JSONArray(
                             data.object[CHOOSE m \in ImportMembers : KeyOfMember(m) = key].array))
                      ELSE @[key]]]
           /\ lastCall' = ImportReturned(jsonString, TRUE,
                                         ImportedCount(data, ImportOrder), <<>>)
           /\ UNCHANGED <<businessAnalysts, talentRounds, reviews, idCount, now, exportFile>>

-----------------------------------------------------------------------------
(* The browser *)

\* localStorage starts or stops throwing
StorageFault(fault) ==
  /\ fault # localStorage.fault
  /\ localStorage' = [localStorage EXCEPT !.fault = fault]
  /\ lastCall' = Returned("fault", Undefined, NoData, "")
  /\ UNCHANGED <<businessAnalysts, talentRounds, reviews, idCount, now, exportFile>>

\* The page is loaded again: the three services are constructed, and each
\* constructor loads its array from the storage
Reload ==
  /\ LET loadData(key) ==
           LET parsed == loadFromStorage(localStorage, key)
           IN  [i \in DOMAIN parsed |-> ParsedObject(parsed[i])]
     IN  /\ businessAnalysts' = loadData(KEY_BUSINESS_ANALYSTS)
         /\ talentRounds' = loadData(KEY_TALENT_ROUNDS)
         /\ reviews' = loadData(KEY_REVIEWS)
  /\ lastCall' = Returned("reload", Undefined, NoData, "")
  /\ UNCHANGED <<exportFile, localStorage, idCount, now>>

-----------------------------------------------------------------------------
(* The clock *)

\* A day passes
Tick ==
  /\ now < MaxNow
  /\ now' = now + 1
  /\ lastCall' = Returned("tick", Undefined, NoData, "")
  /\ UNCHANGED <<exportFile, businessAnalysts, talentRounds, reviews, localStorage, idCount>>

-----------------------------------------------------------------------------
(* The state after the three services are constructed over an empty storage *)

Init ==
  /\ businessAnalysts = <<>>
  /\ talentRounds = <<>>
  /\ reviews = <<>>
  /\ localStorage = [items |-> [k \in STORAGE_KEYS |-> NoItem], fault |-> "none"]
  /\ exportFile = NoItem
  /\ idCount = [ba |-> 0, round |-> 0, review |-> 0]
  /\ now = 0
  /\ lastCall = Returned("init", Undefined, NoData, "")

-----------------------------------------------------------------------------
(* The calls the model makes *)

UnknownId == "non-existent"

BAIds == {generateId("b", n) : n \in 0..(MaxBA - 1)}
RoundIds == {generateId("r", n) : n \in 0..(MaxRounds - 1)}
ReviewIds == {generateId("v", n) : n \in 0..(MaxReviews - 1)}

\* A CreateBARequest with the optional members but lineManagerId left out
BARequest(firstName, lineManagerId) ==
  [firstName |-> firstName, lastName |-> <<"T">>, email |-> UndefinedText,
   level |-> "Senior", lineManagerId |-> lineManagerId,
   department |-> UndefinedText, startDate |-> UndefinedDate]

\* A CreateRoundRequest without description
RoundRequest(quarter, year, deadline) ==
  [name |-> <<"N">>, quarter |-> quarter, year |-> year, deadline |-> deadline,
   description |-> UndefinedText]

\* A CreateReviewRequest: wellbeing issues flagged or not, with or without details
ReviewRequest(roundId, baId, readiness, hasIssues, details) ==
  [roundId |-> roundId, businessAnalystId |-> baId, reviewerId |-> Undefined,
   wellbeingConcerns |-> [hasIssues |-> hasIssues, details |-> details],
   performanceConcerns |-> [hasIssues |-> FALSE, details |-> UndefinedText],
   developmentOpportunities |-> [hasOpportunities |-> FALSE, details |-> UndefinedText],
   promotionReadiness |-> readiness, actions |-> UndefinedActions,
   generalNotes |-> UndefinedText]

Q1 == <<"Q", "1">>
Q2 == <<"Q", "2">>

(* The staff service and its hierarchy: managers that exist, that do not,    *)
(* the empty string and none, a blank first name, and one review to stand by *)

ManagerInputs == BAIds \cup {UnknownId, Undefined, ""}

StaffCreateRequests ==
  {BARequest(<<"A", " ">>, m) : m \in ManagerInputs}
  \cup {BARequest(<<" ">>, UnknownId)}

StaffPatches ==
  {[lineManagerId |-> m] : m \in ManagerInputs}
  \cup {[firstName |-> <<" ">>, lineManagerId |-> UnknownId]}

StaffReviewRequests == {ReviewRequest("r1", "b1", "Ready", FALSE, UndefinedText)}

NextStaff ==
  \/ \E data \in StaffCreateRequests : BACreate(data)
  \/ \E id \in BAIds, data \in StaffPatches : BAUpdate(id, data)
  \/ BAUpdate(UnknownId, [lineManagerId |-> UnknownId])
  \/ \E id \in BAIds \cup {UnknownId} : BADeactivate(id)
  \/ \E data \in StaffReviewRequests : ReviewCreate(data)

SpecStaff == Init /\ [][NextStaff]_vars

(* Round service alone, without staff: quarters with and without padding *)

RoundsCreateRequests ==
  {RoundRequest(q, y, d) : q \in {Q1, Q2, <<" ">> \o Q1}, y \in {2025, 2019}, d \in {0, 1}}

RoundsPatches ==
  {[quarter |-> q] : q \in {Q1, Q2}} \cup {[name |-> <<" ">>], [deadline |-> 1]}

NextRounds ==
  \/ \E data \in RoundsCreateRequests : RoundCreate(data)
  \/ \E id \in RoundIds \cup {UnknownId}, data \in RoundsPatches : RoundUpdate(id, data)
  \/ \E id \in RoundIds \cup {UnknownId} : RoundActivate(id)
  \/ \E id \in RoundIds \cup {UnknownId} : RoundComplete(id)
  \/ Tick

SpecRounds == Init /\ [][NextRounds]_vars

(* Review service alone: the ids in a review are not checked against the    *)
(* other services, so any string serves                                     *)

ReviewsCreateRequests ==
  {ReviewRequest(r, b, "Ready", FALSE, UndefinedText) : r \in {"r1", "r2"}, b \in {"b1", "b2"}}
  \cup {ReviewRequest("r1", "b1", "Ready", TRUE, UndefinedText),
        ReviewRequest("", "b1", "Ready", FALSE, UndefinedText)}

ReviewsPatches ==
  {[roundId |-> "r1"], [roundId |-> ""], [businessAnalystId |-> "b1"],
   [wellbeingConcerns |-> [hasIssues |-> TRUE, details |-> UndefinedText]]}

NextReviews ==
  \/ \E data \in ReviewsCreateRequests : ReviewCreate(data)
  \/ \E id \in ReviewIds \cup {UnknownId}, data \in ReviewsPatches : ReviewUpdate(id, data)
  \/ Tick

SpecReviews == Init /\ [][NextReviews]_vars

(* The three services together: staff without managers, one quarter *)

CreateRequests == {BARequest(<<"A">>, Undefined)}

RoundCreateRequests == {RoundRequest(Q1, 2025, MaxNow)}

RoundPatches == {[name |-> <<"M">>]}

\* The one round that can exist, and an id that none has
TheRoundIds == {generateId("r", 0), UnknownId}

\* A review with promotionReadiness for every BA id, one without for the first
ReviewCreateRequests ==
  {ReviewRequest(generateId("r", 0), b, "Ready", FALSE, UndefinedText) : b \in BAIds}
  \cup {ReviewRequest(generateId("r", 0), generateId("b", 0), Undefined, FALSE,
                      UndefinedText)}

ReviewPatches == {[promotionReadiness |-> "Ready"]}

Next ==
  \/ \E data \in CreateRequests : BACreate(data)
  \/ \E id \in BAIds : BADeactivate(id)
  \/ \E data \in RoundCreateRequests : RoundCreate(data)
  \/ \E id \in TheRoundIds, data \in RoundPatches : RoundUpdate(id, data)
  \/ \E id \in TheRoundIds : RoundActivate(id)
  \/ \E id \in TheRoundIds : RoundComplete(id)
  \/ \E data \in ReviewCreateRequests : ReviewCreate(data)
  \/ \E id \in ReviewIds, data \in ReviewPatches : ReviewUpdate(id, data)

Spec == Init /\ [][Next]_vars

(* Every mutating operation of the three services over a localStorage whose *)
(* writes can fail: one member of staff, one round and one review           *)

SyncStaffPatches == {[level |-> "Lead"]}

SyncRoundPatches == {[name |-> <<"M">>]}

SyncReviewRequests ==
  {ReviewRequest(generateId("r", 0), generateId("b", 0), "Ready", FALSE, UndefinedText)}

SyncReviewPatches == {[promotionReadiness |-> "Near Ready"]}

SyncFaults == {"none", "quota"}

NextSync ==
  \/ businessAnalysts = <<>> /\ \E data \in CreateRequests : BACreate(data)
  \/ \E id \in {generateId("b", 0), UnknownId}, data \in SyncStaffPatches : BAUpdate(id, data)
  \/ \E id \in {generateId("b", 0), UnknownId} : BADeactivate(id)
  \/ talentRounds = <<>> /\ \E data \in RoundCreateRequests : RoundCreate(data)
  \/ \E id \in TheRoundIds, data \in SyncRoundPatches : RoundUpdate(id, data)
  \/ \E id \in TheRoundIds : RoundActivate(id)
  \/ \E id \in TheRoundIds : RoundComplete(id)
  \/ reviews = <<>> /\ \E data \in SyncReviewRequests : ReviewCreate(data)
  \/ \E id \in {generateId("v", 0), UnknownId}, data \in SyncReviewPatches :
       ReviewUpdate(id, data)
  \/ \E fault \in SyncFaults : StorageFault(fault)

SpecSync == Init /\ [][NextSync]_vars

(* The storage accessors alone, over a localStorage that holds anything: the *)
(* services are constructed over it and then left alone                      *)

AStoredBA == NewBA(BARequest(<<"A">>, Undefined), generateId("b", 0), 0)

AStoredRound == NewRound(RoundRequest(Q1, 2025, 0), generateId("r", 0), 0)

\* What a key can hold before the program starts
StoredItems ==
  {NoItem, EmptyText, InvalidText, JSONText(JSONNull), JSONText(JSONObject([version |-> "1.0"])),
   JSONText(JSONArray(<<>>)), JSONText(JSONArray(Stringify(<<AStoredBA>>)))}

\* The arrays the model saves
SavedArrays == {<<>>, <<AStoredBA>>, <<AStoredRound>>}

InitStorage ==
  /\ localStorage \in [items : [STORAGE_KEYS -> StoredItems], fault : StorageFaults]
  /\ businessAnalysts = loadFromStorage(localStorage, KEY_BUSINESS_ANALYSTS)
  /\ talentRounds = loadFromStorage(localStorage, KEY_TALENT_ROUNDS)
  /\ reviews = loadFromStorage(localStorage, KEY_REVIEWS)
  /\ idCount = [ba |-> 0, round |-> 0, review |-> 0]
  /\ now = 0
  /\ exportFile = NoItem
  /\ lastCall = Returned("init", Undefined, NoData, "")

NextStorage ==
  \/ \E key \in STORAGE_KEYS : LoadFromStorage(key)
  \/ \E key \in STORAGE_KEYS, data \in SavedArrays : SaveToStorage(key, data)

SpecStorage == InitStorage /\ [][NextStorage]_vars

(* Export and import beside the services: one member of staff, one round,  *)
(* one review, a localStorage that can fail, and the files a user can pick  *)

\* Records that fail their entity's validation, as a file can hold them
AnInvalidBA ==
  ToJSON([NewBA(BARequest(<<>>, Undefined), "x1", 0) EXCEPT !.level = "Boss"])

AnInvalidRound == ToJSON(NewRound(RoundRequest(Q1, 1999, 0), "x2", 0))

AnInvalidReview ==
  ToJSON(NewReview(ReviewRequest("", "", "Ready", TRUE, UndefinedText), "x3", 0))

\* Texts that are not exports: not JSON, JSON that is not an object, objects
\* without an array member, and a file of records that fail validation
ImportTexts ==
  {InvalidText, EmptyText, JSONText(JSONNull), JSONText(JSONNumber(5)),
   JSONText(JSONArray(<<>>)), JSONText(JSONObject([version |-> "1.0"])),
   JSONText(JSONObject([businessAnalysts |-> JSONNull, reviews |-> JSONNumber(5)])),
   JSONText(JSONObject([businessAnalysts |-> JSONArray(<<AnInvalidBA>>),
                        talentRounds |-> JSONArray(<<AnInvalidRound>>),
                        reviews |-> JSONArray(<<AnInvalidReview>>)]))}

NextExport ==
  \/ businessAnalysts = <<>> /\ \E data \in CreateRequests : BACreate(data)
  \/ talentRounds = <<>> /\ \E data \in RoundCreateRequests : RoundCreate(data)
  \/ reviews = <<>> /\ \E data \in SyncReviewRequests : ReviewCreate(data)
  \/ ExportAll
  \/ exportFile # NoItem /\ ImportData(exportFile)
  \/ \E jsonString \in ImportTexts : ImportData(jsonString)
  \/ \E fault \in StorageFaults : StorageFault(fault)

SpecExport == Init /\ [][NextExport]_vars

(* The text fields of staff and rounds: padded text given to create and to  *)
(* update                                                                   *)

TextCreateRequests ==
  {[BARequest(<<" ", "A">>, Undefined) EXCEPT !.department = <<"D", " ">>]}

TextStaffPatches == {[firstName |-> <<"B", " ">>], [department |-> <<" ">>]}

TextRoundRequests ==
  {[RoundRequest(Q1 \o <<" ">>, 2025, MaxNow) EXCEPT !.description = <<" ", "d">>]}

TextRoundPatches == {[name |-> <<" ", "M">>], [description |-> <<"e", " ">>]}

NextText ==
  \/ \E data \in TextCreateRequests : BACreate(data)
  \/ \E id \in BAIds, data \in TextStaffPatches : BAUpdate(id, data)
  \/ \E data \in TextRoundRequests : RoundCreate(data)
  \/ \E id \in RoundIds, data \in TextRoundPatches : RoundUpdate(id, data)

SpecText == Init /\ [][NextText]_vars

(* The review service over page loads: the reviews of one member of staff   *)
(* in two rounds, complete and not, with and without concerns and actions  *)

TrendCreateRequests ==
  {[ReviewRequest(r, "b1", readiness, hasIssues,
                  IF hasIssues THEN <<"x">> ELSE UndefinedText)
      EXCEPT !.actions = actions] :
     r \in {"r1", "r2"}, readiness \in {"Not Ready", "Ready", Undefined},
     hasIssues \in BOOLEAN,
     actions \in {<<>>, <<<<"a">>>>}}

NextTrend ==
  \/ \E data \in TrendCreateRequests : ReviewCreate(data)
  \/ \E baId \in {"b1", UnknownId} : GetHistoricalTrend(baId)
  \/ Reload
  \/ Tick

SpecTrend == Init /\ [][NextTrend]_vars

(* The hierarchy walks over staff that came in through an import and a     *)
(* page load: every line manager there can be, ids that occur twice        *)

WalkIds == {"a", "b"}

\* Files of staff, of each the members that the walks read
WalkImportTexts ==
  LET StaffRecords ==
        {[id |-> id, lineManagerId |-> lineManagerId, isActive |-> isActive] :
           id \in WalkIds, lineManagerId \in WalkIds \cup {"", UnknownId},
           isActive \in BOOLEAN}
      StaffLists == UNION {[1..n -> StaffRecords] : n \in 1..MaxBA}
  IN  {JSONText(JSONObject([businessAnalysts |-> JSONArray(list)])) : list \in StaffLists}

\* A call runs to its end before anything else happens
NextWalks ==
  \/ /\ ~Running
     /\ localStorage.items[KEY_BUSINESS_ANALYSTS] = NoItem
     /\ \E jsonString \in WalkImportTexts : ImportData(jsonString)
  \/ ~Running /\ Reload
  \/ \E baId \in WalkIds \cup {UnknownId}, newManagerId \in WalkIds \cup {"", UnknownId} :
       StartCircularWalk(baId, newManagerId)
  \/ CircularStep
  \/ StartOrgChart
  \/ OrgChartStep

\* A call that is running takes its next step
SpecWalks == Init /\ [][NextWalks]_vars /\ WF_vars(CircularStep \/ OrgChartStep)

-----------------------------------------------------------------------------
(* Properties *)

\* The id n manager links above id, undefined when the chain ends before
RECURSIVE ManagerChain(_, _, _)
ManagerChain(bas, id, n) ==
  IF n = 0 THEN id
  ELSE IF FalsyId(id) \/ ~BAExists(bas, id) THEN Undefined
  ELSE ManagerChain(bas, BAById(bas, id).lineManagerId, n - 1)

\* Following lineManagerId links upward from `from` reaches `to`
Reaches(bas, from, to) == \E n \in 0..Len(bas) : ManagerChain(bas, from, n) = to

\* No manager chain loops through two or more records
NoCycleThroughTwo(bas) ==
  \A i, j \in DOMAIN bas :
    bas[i].id # bas[j].id => ~(Reaches(bas, bas[i].id, bas[j].id) /\ Reaches(bas, bas[j].id, bas[i].id))

\* Nothing in memory or in storage changes in the step
NothingChanges ==
  UNCHANGED <<businessAnalysts, talentRounds, reviews, localStorage>>

\* The records of arr keep their places and ids, and none is removed
RecordsKept(old, new) ==
  /\ Len(new) >= Len(old)
  /\ \A i \in DOMAIN old : new[i].id = old[i].id

(* C1 *)

RoundLifecycleStep ==
  /\ RecordsKept(talentRounds, talentRounds')
  /\ \A i \in DOMAIN talentRounds' :
       IF i \in DOMAIN talentRounds
       THEN \/ talentRounds'[i].status = talentRounds[i].status
            \/ /\ talentRounds[i].status = DRAFT
               /\ talentRounds'[i].status = ACTIVE
               /\ lastCall'.op = "round.activate"
               /\ lastCall'.id = talentRounds[i].id
            \/ /\ talentRounds[i].status = ACTIVE
               /\ talentRounds'[i].status = COMPLETED
               /\ lastCall'.op = "round.complete"
               /\ lastCall'.id = talentRounds[i].id
       ELSE /\ talentRounds'[i].status = DRAFT
            /\ lastCall'.op = "round.create"
            /\ lastCall'.id = talentRounds'[i].id

\* C1: a round enters the list only through create and then with status Draft;
\* afterwards its status changes only from Draft to Active, in a step that is
\* activate of that round, or from Active to Completed, in a step that is
\* complete of that round; no round is removed.
RoundLifecycle == [][RoundLifecycleStep]_vars

\* C1 witness: complete has returned a round that went Draft, Active, Completed
RoundLifecycleWitness ==
  /\ lastCall.op = "round.complete"
  /\ lastCall.returned = "object"
  /\ \E i \in DOMAIN talentRounds :
       talentRounds[i].id = lastCall.id /\ talentRounds[i].status = COMPLETED

(* C2 *)

\* Every active business analyst has a complete review for the round
AllActiveReviewed(bas, rs, roundId) ==
  \A i \in DOMAIN bas :
    bas[i].isActive =>
      \E k \in DOMAIN rs : /\ rs[k].roundId = roundId
                           /\ rs[k].businessAnalystId = bas[i].id
                           /\ rs[k].isComplete

\* C2: whenever a round's status becomes Completed, every active business
\* analyst has, at that moment, a review for that round with isComplete = true.
CompleteRequiresAllReviewed ==
  [][\A i \in DOMAIN talentRounds :
       (talentRounds[i].status # COMPLETED /\ talentRounds'[i].status = COMPLETED)
         => AllActiveReviewed(businessAnalysts, reviews, talentRounds[i].id)]_vars

(* C3 *)

CircularUpdateRejected ==
  \A id, m \in BAIds :
    ( /\ lastCall'.op = "ba.update"
      /\ lastCall'.id = id
      /\ lastCall'.data = [lineManagerId |-> m]
      /\ m # id
      /\ Reaches(businessAnalysts, m, id) )
    => /\ lastCall'.error = "Cannot create circular reporting relationship"
       /\ NothingChanges

\* C3: update(id, {lineManagerId: m}) with m # id, when the links upward from m
\* reach id, throws 'Cannot create circular reporting relationship' and changes
\* nothing; and after every step no manager chain loops through two or more BAs.
NoReportingCycle ==
  [][CircularUpdateRejected /\ NoCycleThroughTwo(businessAnalysts')]_vars

\* C3 witness: an update was rejected whose new manager reports, directly or
\* through others, to the BA
NoReportingCycleWitness ==
  /\ lastCall.op = "ba.update"
  /\ lastCall.error = "Cannot create circular reporting relationship"
  /\ lastCall.data.lineManagerId # lastCall.id
  /\ Reaches(businessAnalysts, lastCall.data.lineManagerId, lastCall.id)

(* C4 *)

\* C4: update(id, {lineManagerId: id}) on an existing BA throws, and no BA is
\* its own line manager.
SelfReferencePrevented ==
  /\ \A i \in DOMAIN businessAnalysts :
       businessAnalysts[i].lineManagerId # businessAnalysts[i].id
  /\ ( /\ lastCall.op = "ba.update"
       /\ BAExists(businessAnalysts, lastCall.id)
       /\ lastCall.data = [lineManagerId |-> lastCall.id] )
     => lastCall.returned = "throws"

(* C5 *)

RejectedTransition ==
  LET call == lastCall'
      known == BAExists(talentRounds, call.id)
      round == BAById(talentRounds, call.id)
  IN  /\ (call.op \in {"round.activate", "round.complete"} /\ ~known)
           => call.returned = "null" /\ NothingChanges
      /\ (call.op = "round.activate" /\ known /\ round.status # DRAFT)
           => call.error = "Only draft rounds can be activated" /\ NothingChanges
      /\ (call.op = "round.complete" /\ known /\ round.status # ACTIVE)
           => call.error = "Only active rounds can be completed" /\ NothingChanges
      /\ ( /\ call.op = "round.complete" /\ known /\ round.status = ACTIVE
           /\ getRoundSummary(businessAnalysts, localStorage, call.id).completionPercentage < 100 )
           => /\ call.error = "Cannot complete round with incomplete reviews"
              /\ NothingChanges

CompletedRoundStep ==
  /\ \A i \in DOMAIN talentRounds :
       talentRounds[i].status = COMPLETED
         => /\ i \in DOMAIN talentRounds'
            /\ talentRounds'[i] = talentRounds[i]
            /\ loadFromStorage(localStorage', KEY_TALENT_ROUNDS)[i]
                 = loadFromStorage(localStorage, KEY_TALENT_ROUNDS)[i]
  /\ ( /\ lastCall'.op = "round.update"
       /\ BAExists(talentRounds, lastCall'.id)
       /\ BAById(talentRounds, lastCall'.id).status = COMPLETED )
     => lastCall'.error = "Cannot edit completed rounds"

\* C6: update of a Completed round throws 'Cannot edit completed rounds', and
\* no step changes any field of a round that is Completed, in memory or in
\* storage.
CompletedRoundsImmutable == [][CompletedRoundStep]_vars

\* C6 witness: an update of a Completed round was refused
CompletedRoundsWitness ==
  /\ lastCall.op = "round.update"
  /\ lastCall.error = "Cannot edit completed rounds"
  /\ BAById(talentRounds, lastCall.id).status = COMPLETED

(* C7 *)

\* C7: no two stored rounds have the same (quarter, year) pair.
OneRoundPerQuarterAndYear ==
  \A i, j \in DOMAIN talentRounds :
    i # j => ~( /\ talentRounds[i].quarter = talentRounds[j].quarter
                /\ talentRounds[i].year = talentRounds[j].year )

(* C8 *)

\* C8: no two stored reviews share the same (businessAnalystId, roundId) pair.
OneReviewPerBAAndRound ==
  \A i, j \in DOMAIN reviews :
    i # j => ~( /\ reviews[i].businessAnalystId = reviews[j].businessAnalystId
                /\ reviews[i].roundId = reviews[j].roundId )

(* C9 *)

\* The call is a create or an update whose data names a line manager that
\* matches no record of bas
NamesMissingManager(call, bas) ==
  /\ call.op \in {"ba.create", "ba.update"}
  /\ "lineManagerId" \in DOMAIN call.data
  /\ ~FalsyId(call.data.lineManagerId)
  /\ ~BAExists(bas, call.data.lineManagerId)

\* Every line manager that is set (to a non-empty string) is the id of a record
ManagersExist(bas) ==
  \A i \in DOMAIN bas :
    ~FalsyId(bas[i].lineManagerId) => BAExists(bas, bas[i].lineManagerId)

\* C9 as stated: every create or update naming a line manager that matches no
\* record throws 'Line manager not found' and changes nothing, and every line
\* manager that is set exists.
MissingManagerAlwaysNotFound ==
  [][ /\ ( NamesMissingManager(lastCall', businessAnalysts)
           \/ (lastCall'.op = "ba.create" /\ lastCall'.data.lineManagerId = "") )
           => lastCall'.error = "Line manager not found" /\ NothingChanges
      /\ ManagersExist(businessAnalysts') ]_vars

\* What the call validates: the payload, or the record merged with the patch
ValidatedBAData(call, bas) ==
  IF call.op = "ba.create" THEN call.data
  ELSE BAUpdatedData(BAById(bas, call.id), call.data)

MissingManagerStep ==
  LET call == lastCall' IN
  /\ ( /\ NamesMissingManager(call, businessAnalysts)
       /\ call.op = "ba.update" => BAExists(businessAnalysts, call.id) )
     => /\ call.returned = "throws"
        /\ IF validateBAData(ValidatedBAData(call, businessAnalysts)) = <<>>
           THEN call.error = "Line manager not found"
           ELSE call.validationErrors = validateBAData(ValidatedBAData(call, businessAnalysts))
        /\ NothingChanges
  /\ ( /\ NamesMissingManager(call, businessAnalysts)
       /\ call.op = "ba.update"
       /\ ~BAExists(businessAnalysts, call.id) )
     => call.returned = "null" /\ NothingChanges
  /\ ManagersExist(businessAnalysts')

\* C9 amended: a create, or an update of an existing BA, naming a non-empty
\* line manager id that matches no record throws and changes nothing: 'Line manager not found'
\* when the data passes validation, the validation error otherwise; an update
\* of an unknown id returns null and changes nothing; every line manager that
\* is set is the id of a record.
LineManagerIntegrity == [][MissingManagerStep]_vars

\* C9 witness: a create with valid data was refused for its missing manager
\* while another record has a manager
LineManagerIntegrityWitness ==
  /\ lastCall.op = "ba.create"
  /\ lastCall.error = "Line manager not found"
  /\ \E i \in DOMAIN businessAnalysts : ~FalsyId(businessAnalysts[i].lineManagerId)

(* C10 *)

DeactivateStep ==
  LET call == lastCall'
      i == FindIndex(businessAnalysts, call.id)
  IN  call.op = "ba.deactivate" =>
        IF i = 0
        THEN call.returned = "false" /\ NothingChanges
        ELSE /\ call.returned = "true"
             /\ businessAnalysts' =
                  [businessAnalysts EXCEPT ![i] =
                     [@ EXCEPT !.isActive = FALSE, !.updatedAt = now']]
             /\ UNCHANGED <<talentRounds, reviews>>
             /\ localStorage'.items[KEY_REVIEWS] = localStorage.items[KEY_REVIEWS]
             /\ localStorage'.items[KEY_TALENT_ROUNDS] = localStorage.items[KEY_TALENT_ROUNDS]

\* C10: deactivate of a known id returns true and changes only that record's
\* isActive (to false) and updatedAt; deactivate of an unknown id returns false
\* and writes nothing; reviews are unchanged; and no step removes a BA record.
SoftDeletion ==
  [][DeactivateStep /\ RecordsKept(businessAnalysts, businessAnalysts')]_vars

\* C10 witness: a manager with an active report was deactivated while a review
\* is stored
SoftDeletionWitness ==
  /\ lastCall.op = "ba.deactivate"
  /\ lastCall.returned = "true"
  /\ reviews # <<>>
  /\ \E i \in DOMAIN businessAnalysts :
       /\ businessAnalysts[i].lineManagerId = lastCall.id
       /\ businessAnalysts[i].id # lastCall.id
       /\ businessAnalysts[i].isActive

(* C11 *)

\* C11: after deactivate(managerId) has returned true while an active BA has
\* lineManagerId = managerId, getDirectReports(managerId) is the empty list.
DeactivatedManagerHasNoReports ==
  ( /\ lastCall.op = "ba.deactivate"
    /\ lastCall.returned = "true"
    /\ \E i \in DOMAIN businessAnalysts :
         /\ businessAnalysts[i].lineManagerId = lastCall.id
         /\ businessAnalysts[i].isActive )
  => getDirectReports(businessAnalysts, lastCall.id) = <<>>

(* C12 *)

\* C12: complete(id) of an Active round, while the system contains no business
\* analysts, returns the round with status Completed and completedAt set.
EmptyRoundCanBeCompleted ==
  [][\A i \in DOMAIN talentRounds :
       ( /\ lastCall'.op = "round.complete"
         /\ lastCall'.id = talentRounds[i].id
         /\ talentRounds[i].status = ACTIVE
         /\ businessAnalysts = <<>> )
       => /\ lastCall'.returned = "object"
          /\ talentRounds'[i].status = COMPLETED
          /\ talentRounds'[i].completedAt # UndefinedDate]_vars

(* C13 *)

MutatingOps == {"ba.create", "ba.update", "ba.deactivate", "round.create", "round.update",
                "round.activate", "round.complete", "review.create", "review.update"}

\* The storage key and the array of the service a call is made on
KeyOfCall(call) ==
  IF call.op \in {"ba.create", "ba.update", "ba.deactivate"} THEN KEY_BUSINESS_ANALYSTS
  ELSE IF call.op \in {"review.create", "review.update"} THEN KEY_REVIEWS
  ELSE KEY_TALENT_ROUNDS

ArrayOfCall(call, bas, rounds, rs) ==
  IF call.op \in {"ba.create", "ba.update", "ba.deactivate"} THEN bas
  ELSE IF call.op \in {"review.create", "review.update"} THEN rs
  ELSE rounds

\* The array stored under the service's key is the service's array, serialized
InSync(call, store, bas, rounds, rs) ==
  store.items[KeyOfCall(call)]
    = JSONText(JSONArray(Stringify(ArrayOfCall(call, bas, rounds, rs))))

ReadsAsEmpty(store, key) ==
  \/ getItemThrows(store)
  \/ store.items[key] = NoItem
  \/ store.items[key] = EmptyText
  \/ ParseThrows(store.items[key])
  \/ ~IsArray(Parse(store.items[key]))

AccessorStep ==
  LET call == lastCall'
  IN  /\ call.op = "loadFromStorage" =>
           /\ call.returned # "throws"
           /\ ReadsAsEmpty(localStorage, call.id) => call.result = <<>>
      /\ call.op = "saveToStorage" =>
           IF setItemThrows(localStorage)
           THEN call.returned = "throws" /\ call.error = StorageError
           ELSE /\ call.returned # "throws"
                /\ localStorage'.items[call.id] = JSONText(JSONArray(Stringify(call.data)))

HeldArray(store, key) == loadFromStorage([store EXCEPT !.fault = "none"], key)

\* The array of a member of an export's data string
ExportedArray(dataString, member) == Parse(dataString).object[member].array

RECURSIVE SumOfLengths(_, _)
SumOfLengths(dataString, members) ==
  IF members = <<>> THEN 0
  ELSE Len(ExportedArray(dataString, Head(members))) + SumOfLengths(dataString, Tail(members))

\* exportAll returns the three arrays the keys hold
ExportStep ==
  lastCall'.op = "exportAll" =>
    /\ lastCall'.result.success
    /\ \A m \in ImportMembers :
         ExportedArray(lastCall'.result.data, m) = HeldArray(localStorage, KeyOfMember(m))

\* importData of the data string of an export succeeds and leaves the three
\* arrays of the export under the keys
ImportOfExportStep ==
  (lastCall'.op = "importData" /\ lastCall'.data = exportFile /\ exportFile # NoItem) =>
    /\ lastCall'.result = [success |-> TRUE,
                           imported |-> SumOfLengths(exportFile, ImportOrder),
                           errors |-> <<>>]
    /\ \A m \in ImportMembers :
         HeldArray(localStorage', KeyOfMember(m)) = ExportedArray(exportFile, m)

HasImportFormat(jsonString) ==
  /\ ~ParseThrows(jsonString)
  /\ DOMAIN Parse(jsonString) = {"object"}
  /\ \E m \in ImportMembers :
       /\ m \in DOMAIN Parse(jsonString).object
       /\ DOMAIN Parse(jsonString).object[m] = {"array"}

RejectedImportStep ==
  lastCall'.op = "importData" =>
    /\ ParseThrows(lastCall'.data)
         => /\ lastCall'.result = [success |-> FALSE, imported |-> 0,
                                   errors |-> <<"Invalid JSON format">>]
            /\ NothingChanges
    /\ (~ParseThrows(lastCall'.data) /\ ~HasImportFormat(lastCall'.data))
         => /\ lastCall'.result = [success |-> FALSE, imported |-> 0,
                                   errors |-> <<"Invalid import data format">>]
            /\ NothingChanges

\* C16: importData of a text that is not JSON returns {success: false,
\* imported: 0, errors: ['Invalid JSON format']}, and of a JSON value that is
\* not an object or has none of the three members as an array returns
\* {success: false, imported: 0, errors: ['Invalid import data format']}; in
\* both cases no storage key is written.
RejectedImportsChangeNothing == [][RejectedImportStep]_vars

\* C16 witness: an object whose members are not arrays was refused while the
\* storage holds a record
RejectedImportsWitness ==
  /\ lastCall.op = "importData"
  /\ lastCall.data = JSONText(JSONObject([businessAnalysts |-> JSONNull,
                                          reviews |-> JSONNumber(5)]))
  /\ lastCall.result.errors = <<"Invalid import data format">>
  /\ HeldArray(localStorage, KEY_BUSINESS_ANALYSTS) # <<>>

(* C17 *)

\* The stored record fails the validation rules of the entity kept under key
FailsValidation(key, record) ==
  IF key = KEY_BUSINESS_ANALYSTS
  THEN validateBAData([f \in CreateBAFields |-> PatchGet(record, f)]) # <<>>
  ELSE IF key = KEY_TALENT_ROUNDS
  THEN record.year < MinYear \/ record.year > MaxYear
  ELSE validateReviewData([f \in CreateReviewFields |-> PatchGet(record, f)]) # <<>>

\* C17: importData never writes to storage a record that fails its entity's
\* validation rules.
ImportValidatesEachEntity ==
  [][lastCall'.op = "importData" =>
       \A key \in STORAGE_KEYS :
         localStorage'.items[key] # localStorage.items[key] =>
           \A i \in DOMAIN HeldArray(localStorage', key) :
             ~FailsValidation(key, HeldArray(localStorage', key)[i])]_vars

(* C18 *)

\* The call threw a 'Validation failed: ...' error and changed nothing
RejectedAsInvalid(call) ==
  /\ call.returned = "throws"
  /\ call.validationErrors # <<>>
  /\ call.error = "Validation failed: " \o Join(call.validationErrors)
  /\ NothingChanges

\* { ...existing, ...data }, the members validation reads
Merged(existing, data, fields) == [f \in fields |-> Spread(existing, data)[f]]

\* The payload of a create, or the record of an update merged with its patch,
\* fails validation
FailsItsValidation(call, bas, rounds, rs, today) ==
  IF call.op = "ba.create" THEN validateBAData(call.data) # <<>>
  ELSE IF call.op = "round.create" THEN validateRoundData(call.data, today) # <<>>
  ELSE IF call.op = "review.create" THEN validateReviewData(call.data) # <<>>
  ELSE IF call.op = "ba.update"
  THEN /\ BAExists(bas, call.id)
       /\ validateBAData(Merged(BAById(bas, call.id), call.data, CreateBAFields)) # <<>>
  ELSE IF call.op = "round.update"
  THEN /\ BAExists(rounds, call.id)
       /\ validateRoundData(Merged(BAById(rounds, call.id), call.data, CreateRoundFields),
                            today) # <<>>
  ELSE IF call.op = "review.update"
  THEN /\ BAExists(rs, call.id)
       /\ validateReviewData(Merged(BAById(rs, call.id), call.data, CreateReviewFields)) # <<>>
  ELSE FALSE

\* The record the call returned passes its entity's validation
StoredRecordIsValid(call, bas, rounds, rs, today) ==
  IF call.op \in {"ba.create", "ba.update"}
  THEN validateBAData(Merged(BAById(bas, call.id), NoData, CreateBAFields)) = <<>>
  ELSE IF call.op \in {"round.create", "round.update"}
  THEN validateRoundData(Merged(BAById(rounds, call.id), NoData, CreateRoundFields),
                         today) = <<>>
  ELSE validateReviewData(Merged(BAById(rs, call.id), NoData, CreateReviewFields)) = <<>>

CreateAndUpdateOps == {"ba.create", "ba.update", "round.create", "round.update",
                       "review.create", "review.update"}

\* C18: a create whose payload, or an update whose record merged with the
\* patch, fails the entity's validation throws an error starting with
\* 'Validation failed:' and changes neither the array nor the storage; and the
\* record a create or update stores passes validation.
ValidationFailureIsAtomic ==
  [][/\ FailsItsValidation(lastCall', businessAnalysts, talentRounds, reviews, now)
          => RejectedAsInvalid(lastCall')
     /\ (lastCall'.op \in CreateAndUpdateOps /\ lastCall'.returned = "object")
          => StoredRecordIsValid(lastCall', businessAnalysts', talentRounds', reviews',
                                 now')]_vars

(* C19 *)

Trimmed(text) == text = UndefinedText \/ Trim(text) = text

\* C19: every text field of every BA (firstName, lastName, email, department)
\* and of every round (name, quarter, description), in memory and in storage,
\* has no leading or trailing whitespace.
AllTextTrimmed ==
  /\ \A i \in DOMAIN businessAnalysts :
       \A f \in {"firstName", "lastName", "email", "department"} :
         Trimmed(businessAnalysts[i][f])
  /\ \A i \in DOMAIN talentRounds :
       \A f \in {"name", "quarter", "description"} : Trimmed(talentRounds[i][f])
  /\ \A i \in DOMAIN loadFromStorage(localStorage, KEY_BUSINESS_ANALYSTS) :
       \A f \in {"firstName", "lastName", "email", "department"} :
         Trimmed(PatchGet(loadFromStorage(localStorage, KEY_BUSINESS_ANALYSTS)[i], f))
  /\ \A i \in DOMAIN loadFromStorage(localStorage, KEY_TALENT_ROUNDS) :
       \A f \in {"name", "quarter", "description"} :
         Trimmed(PatchGet(loadFromStorage(localStorage, KEY_TALENT_ROUNDS)[i], f))

(* C20 *)

\* C20: a review that create has just returned for a payload with
\* promotionReadiness set has isComplete = false, in memory and in storage.
NewReviewIsNotComplete ==
  ( /\ lastCall.op = "review.create"
    /\ lastCall.returned = "object"
    /\ ~FalsyId(lastCall.data.promotionReadiness) )
  => /\ ~BAById(reviews, lastCall.id).isComplete
     /\ ~BAById(loadFromStorage(localStorage, KEY_REVIEWS), lastCall.id).isComplete

(* C21 *)

\* The active BAs that have, or have not, a complete review stored for the round
ActiveWithCompleteReview(bas, rs, roundId, wanted) ==
  {i \in DOMAIN bas :
     /\ bas[i].isActive
     /\ wanted = (\E k \in DOMAIN rs : /\ rs[k].roundId = roundId
                                       /\ rs[k].businessAnalystId = bas[i].id
                                       /\ rs[k].isComplete)}

RECURSIVE SumCompleted(_, _)
SumCompleted(byLevel, levels) ==
  IF levels = {} THEN 0
  ELSE LET level == CHOOSE l \in levels : TRUE
       IN  byLevel[level].completed + SumCompleted(byLevel, levels \ {level})

\* C21: for every round, getRoundSummary reports totalBAs = the number of
\* active BAs, completedReviews = the number of active BAs with a complete
\* review in the round = the sum of reviewsByLevel[level].completed, and
\* pendingReviews = the number of active BAs without one; so pendingReviews
\* >= 0 and 0 <= completionPercentage <= 100.
SummaryCountsActiveStaff ==
  \A r \in DOMAIN talentRounds :
    LET id == talentRounds[r].id
        summary == getRoundSummary(businessAnalysts, localStorage, id)
        stored == loadFromStorage(localStorage, KEY_REVIEWS)
    IN  /\ summary.totalBAs = Cardinality({i \in DOMAIN businessAnalysts :
                                             businessAnalysts[i].isActive})
        /\ summary.completedReviews
             = Cardinality(ActiveWithCompleteReview(businessAnalysts, stored, id, TRUE))
        /\ summary.completedReviews = SumCompleted(summary.reviewsByLevel, BALevel)
        /\ summary.pendingReviews
             = Cardinality(ActiveWithCompleteReview(businessAnalysts, stored, id, FALSE))
        /\ summary.pendingReviews >= 0
        /\ summary.completionPercentage >= 0
        /\ summary.completionPercentage <= 100

(* C22 *)

\* The node is of an active BA at the given depth, its children are the active
\* BAs managed by that BA, and so on below
RECURSIVE WellFormedNode(_, _, _)
WellFormedNode(node, bas, depth) ==
  /\ node.depth = depth
  /\ node.ba.isActive
  /\ [i \in DOMAIN node.children |-> node.children[i].ba]
       = SelectSeq(bas, LAMBDA c : c.isActive /\ c.lineManagerId = node.ba.id)
  /\ \A i \in DOMAIN node.children : WellFormedNode(node.children[i], bas, depth + 1)

\* C22: getOrgChart returns one root node, of depth 0, for each active BA
\* without a lineManagerId, in list order; the children of a node are exactly
\* the active BAs whose lineManagerId is the node's BA id, one deeper than the
\* node; no inactive BA is in a node; and the result is empty without BAs.
OrgChartStructure ==
  LET chart == getOrgChart(businessAnalysts)
  IN  /\ [i \in DOMAIN chart |-> chart[i].ba]
           = SelectSeq(businessAnalysts,
                       LAMBDA ba : ba.isActive /\ FalsyId(ba.lineManagerId))
      /\ \A i \in DOMAIN chart : WellFormedNode(chart[i], businessAnalysts, 0)
      /\ businessAnalysts = <<>> => chart = <<>>

\* C22 witness: the chart has a root with a child below it
OrgChartStructureWitness ==
  \E i \in DOMAIN getOrgChart(businessAnalysts) :
    /\ getOrgChart(businessAnalysts)[i].children # <<>>
    /\ getOrgChart(businessAnalysts)[i].children[1].depth = 1

(* C24 *)

\* How many nodes of the trees are of the BA with the id
RECURSIVE CountInChart(_, _)
CountInChart(nodes, id) ==
  IF nodes = <<>> THEN 0
  ELSE (IF Head(nodes).ba.id = id THEN 1 ELSE 0)
       + CountInChart(Head(nodes).children, id)
       + CountInChart(Tail(nodes), id)

\* C24: every active BA is the BA of exactly one node of the trees getOrgChart
\* returns.
EveryActiveBAOnceInOrgChart ==
  \A i \in DOMAIN businessAnalysts :
    businessAnalysts[i].isActive
      => CountInChart(getOrgChart(businessAnalysts), businessAnalysts[i].id) = 1


(* C25  Review referential integrity: after any sequence of service        *)
(* operations, every stored review's roundId is the id of an existing round *)
(* and its businessAnalystId is the id of an existing BA record.            *)

ReviewReferencesExist ==
  \A i \in DOMAIN reviews :
    /\ \E j \in DOMAIN talentRounds : talentRounds[j].id = reviews[i].roundId
    /\ \E j \in DOMAIN businessAnalysts :
         businessAnalysts[j].id = reviews[i].businessAnalystId


(* C23 *)

\* The day a review was created, of a Date and of an ISO string
CreatedDay(review) ==
  IF IsISOString(review.createdAt) THEN UndefinedDate - 1 - review.createdAt
  ELSE review.createdAt

\* The places in the list of the complete reviews of the BA
CompletePlaces(baId) ==
  {i \in DOMAIN reviews : reviews[i].businessAnalystId = baId /\ reviews[i].isComplete}

\* Review i is before review j in createdAt order (reviews of one time in the
\* order they were created)
CreatedBefore(i, j) ==
  \/ CreatedDay(reviews[i]) < CreatedDay(reviews[j])
  \/ CreatedDay(reviews[i]) = CreatedDay(reviews[j]) /\ i < j

\* Not Ready < Near Ready < Ready
ReadinessRank(readiness) ==
  CASE readiness = "Not Ready" -> 1
    [] readiness = "Near Ready" -> 2
    [] readiness = "Ready" -> 3

\* C23: getHistoricalTrend(baId) returns trend 'New' when the BA has fewer than
\* two complete reviews; with two or more it returns 'Improving' whenever the
\* most recent complete review, in createdAt order, has a strictly higher
\* promotion-readiness rank than the one before it, whatever the concern flags
\* and action counts are.
HistoricalTrendAsSpecified ==
  lastCall.op = "review.getHistoricalTrend" =>
    LET places == CompletePlaces(lastCall.id)
    IN  IF Cardinality(places) < 2
        THEN lastCall.returned = "object" /\ lastCall.result.trend = "New"
        ELSE LET current == CHOOSE j \in places :
                              \A i \in places \ {j} : CreatedBefore(i, j)
                 previous == CHOOSE i \in places \ {current} :
                               \A h \in places \ {current, i} : CreatedBefore(h, i)
             IN  ReadinessRank(reviews[current].promotionReadiness)
                   > ReadinessRank(reviews[previous].promotionReadiness)
                 => lastCall.returned = "object" /\ lastCall.result.trend = "Improving"


(* C26 *)

\* A hierarchy walk has finished: it returned its value
WalkReturned ==
  /\ lastCall.op \in {"ba.wouldCreateCircularReference", "ba.getOrgChart"}
  /\ lastCall.returned \in {"true", "false", "array"}

\* C26: hierarchy walks always terminate: over every list of BA records and
\* every assignment of lineManagerId values, cycles, self-references and
\* references to missing records included, a call of
\* wouldCreateCircularReference or of getOrgChart that has started returns, and
\* none exhausts the call stack.
HierarchyWalksTerminate ==
  /\ Running ~> WalkReturned
  /\ [](lastCall.error # StackOverflow)

=============================================================================
